---- MODULE Spec2Model ----
(***************************************************************************)
(* State-machine model of the PyTransit model facades:                     *)
(*   - MandelAgol, MAChromosphere, MAUniform   (src/src/mandelagol.py)     *)
(*   - QPower2Model                            (pytransit/models/qpower2.py)*)
(*                                                                         *)
(* One MandelAgol-family object and one QPower2Model object are modelled.  *)
(* SpecMA runs the operations of the first, SpecQP those of the second.    *)
(*                                                                         *)
(* The numerical kernels (pytransit.mandelagol_py, numba.qpower2_nb) and   *)
(* the TransitModel base classes are not part of the sources; they are     *)
(* modelled as far as the facades depend on them.  The separations z are   *)
(* handed to the kernels untouched and are never read by the facade, so    *)
(* they are left out of the MandelAgol state.                              *)
(***************************************************************************)
EXTENDS Integers, Sequences, FiniteSets, TLC

VARIABLES
    \* ---- the MandelAgol-family object
    pc,              \* "new" | "ready" | "failed" : life cycle of the object
    cls,             \* class that was instantiated
    cfg,             \* the constructor arguments
    initError,       \* exception raised by the constructor ("none" if none)
    initLog,         \* effects of __init__ in the order they happened
    selfInterpolate, \* self.interpolate
    selfEval,        \* self._eval (the selected delegate)
    selfTables,      \* self.ed, self.le, self.ld, self.kt, self.zt
    selfKlims,       \* self.klims, self.nk, self.nz
    buildCount,      \* calls of ma.calculate_interpolation_tables so far
    lastEval,        \* what the last evaluation call did
    \* ---- the QPower2Model object
    qtime,           \* self.time (None until the data is set)
    qdata,           \* self.lcids, pbids, nsamples, exptimes, _es, _ms, _tae
    qlast            \* what the last evaluate_ps / evaluate_pv call did

maVars == <<pc, cls, cfg, initError, initLog, selfInterpolate, selfEval,
            selfTables, selfKlims, buildCount, lastEval>>
qpVars == <<qtime, qdata, qlast>>
vars == <<pc, cls, cfg, initError, initLog, selfInterpolate, selfEval,
          selfTables, selfKlims, buildCount, lastEval, qtime, qdata, qlast>>

----------------------------------------------------------------------------
(* Bounds of the model *)

\* nldc arguments tried: 0..MaxNldc
MaxNldc == 3
\* radius ratios k tried: 0..MaxK, in units of the table's k step
MaxK == 4
\* limb darkening vectors u have 0..MaxULen entries
MaxULen == 4
\* contamination arrays have 0..MaxCLen entries
MaxCLen == 2
\* time arrays have 1..MaxNpt samples
MaxNpt == 3
\* parameter batches have 1..MaxNpv rows
MaxNpv == 2

(* Program constants *)

\* default table resolution in k and in z
DefaultNk == 128
DefaultNz == 256
\* default nldc of MandelAgol.__init__
DefaultNldc == 2
\* default contamination of an evaluation
DefaultC == 0

----------------------------------------------------------------------------
(* Values *)

\* contamination levels: 0 is "no third light", 1 stands for some c > 0
CLevels == {0, 1}

SeqsUpTo(S, n) == UNION {[1..m -> S] : m \in 0..n}

\* A contamination argument: a Python scalar, a 1-d ndarray or a list.
Scalar(v) == [kind |-> "scalar", vals |-> <<v>>]
NdArray(s) == [kind |-> "ndarray", vals |-> s]
PyList(s) == [kind |-> "list", vals |-> s]

CInputs ==
    {Scalar(v) : v \in CLevels}
    \cup {NdArray(s) : s \in SeqsUpTo(CLevels, MaxCLen)}
    \cup {PyList(s) : s \in SeqsUpTo(CLevels, MaxCLen)}

\* A limb darkening vector of n coefficients (their values are not read).
UVec(n) == [i \in 1..n |-> i]
UInputs == {UVec(n) : n \in 0..MaxULen}

KInputs == 0..MaxK

\* Arguments (k, u, c) of the evaluation calls tried: every k with a pair of
\* coefficients and a scalar c, and every (u, c) at a k that lies inside of
\* every table tried.
CallInputs ==
    {<<k, UVec(2), Scalar(v)>> : k \in KInputs, v \in CLevels}
    \cup {<<2, u, c>> : u \in UInputs, c \in CInputs}

\* Arguments (k, c) of the MAChromosphere calls tried
ChromoInputs == {<<k, c>> : k \in {2, MaxK}, c \in CInputs}

\* (kmin, kmax) pairs tried for klims
KlimsInputs == {<<1, 2>>, <<2, 3>>}

\* model names tried: the supported ones and one that is not
ModelInputs == {"uniform", "quadratic", "interpolated_quadratic",
                "chromosphere", "linear"}

\* kwargs: lerp absent, lerp=True, lerp=False
LerpInputs == {"absent", "True", "False"}

NoTables == [present |-> FALSE, ed |-> <<>>, le |-> <<>>, ld |-> <<>>,
             kt |-> <<>>, zt |-> <<>>]
NoKlims == [present |-> FALSE, klims |-> <<>>, nk |-> 0, nz |-> 0]
NoCfg == [model |-> "", nldc |-> 0, interpolate |-> FALSE, lerp |-> "absent",
          klims |-> <<>>, nk |-> 0, nz |-> 0]
NoEval == [op |-> "none", k |-> 0, u |-> <<>>, callerC |-> Scalar(0),
           kernel |-> "none", c |-> Scalar(0), npb |-> 0,
           tables |-> NoTables, outcome |-> "none", lookup |-> FALSE]

----------------------------------------------------------------------------
(* pytransit.mandelagol_py : the kernels behind the facade *)

\* ma.calculate_interpolation_tables(kmin, kmax, nk, nz)
calculate_interpolation_tables(kmin, kmax, nk, nz) ==
    [present |-> TRUE,
     ed |-> <<"ed", kmin, kmax, nk, nz>>,
     le |-> <<"le", kmin, kmax, nk, nz>>,
     ld |-> <<"ld", kmin, kmax, nk, nz>>,
     kt |-> <<kmin, kmax, nk>>,
     zt |-> <<0, 1 + kmax, nz>>]

\* a lookup that clamps k into the table instead of rejecting it
eval_quad_ip_clamping(k, u, c, tables) ==
    [kernel |-> "eval_quad_ip", outcome |-> "flux", lookup |-> TRUE]

\* ma.eval_quad_ip(z, k, u, c, ed, ld, le, kt, zt): bilinear table lookup;
\* a k outside the table's k axis is a configuration error.
eval_quad_ip(k, u, c, tables) ==
    IF k < tables.kt[1] \/ k > tables.kt[2]
    THEN [kernel |-> "eval_quad_ip", outcome |-> "ConfigError", lookup |-> FALSE]
    ELSE [kernel |-> "eval_quad_ip", outcome |-> "flux", lookup |-> TRUE]

\* ma.eval_quad(z, k, u, c): exact evaluation
eval_quad(k, u, c) ==
    [kernel |-> "eval_quad", outcome |-> "flux", lookup |-> FALSE]

\* ma.eval_uniform(z, k, c)
eval_uniform(k, c) ==
    [kernel |-> "eval_uniform", outcome |-> "flux", lookup |-> FALSE]

\* ma.eval_chromosphere(z, k, c)
eval_chromosphere(k, c) ==
    [kernel |-> "eval_chromosphere", outcome |-> "flux", lookup |-> FALSE]

----------------------------------------------------------------------------
(* MandelAgol.__init__ *)

\* MandelAgol.models
models == {"uniform", "quadratic", "interpolated_quadratic", "chromosphere"}

\* a check that only bounds nldc from above
NldcOkLoose(nldc) == nldc <= 2

\* assert nldc in [0,2]
NldcOk(nldc) == nldc \in {0, 2}

\* kwargs.get('lerp', False)
KwargsGetLerp(lerp) == lerp = "True"

\* self.interpolate = interpolate or kwargs.get('lerp', False)
InterpolateFlag(interpolate, lerp) == interpolate \/ KwargsGetLerp(lerp)

\* the delegate chosen by the if/else cascade of __init__
SelectEval(model, nldc) ==
    IF model = "chromosphere" THEN "_eval_chromosphere"
    ELSE IF model = "uniform" \/ nldc = 0 THEN "_eval_uniform"
    ELSE "_eval_quadratic"

\* table construction that forgets the interpolate flag
BuildsTablesByNameOnly(model, nldc, flag) ==
    /\ SelectEval(model, nldc) = "_eval_quadratic"
    /\ model = "interpolated_quadratic"

\* whether __init__ reaches the call of calculate_interpolation_tables
BuildsTables(model, nldc, flag) ==
    /\ SelectEval(model, nldc) = "_eval_quadratic"
    /\ (model = "interpolated_quadratic" \/ flag)

\* The whole of MandelAgol.__init__, for an object of class c.
MandelAgol_init(c, model, nldc, interpolate, lerp, klims, nk, nz) ==
    /\ pc = "new"
    /\ cls' = c
    /\ cfg' = [model |-> model, nldc |-> nldc, interpolate |-> interpolate,
               lerp |-> lerp, klims |-> klims, nk |-> nk, nz |-> nz]
    /\ lastEval' = lastEval
    /\ IF model \notin models
       THEN /\ pc' = "failed"
            /\ initError' = "AssertionError"
            /\ initLog' = <<"assert_model">>
            /\ UNCHANGED <<selfInterpolate, selfEval, selfTables, selfKlims,
                           buildCount>>
       ELSE IF ~NldcOk(nldc)
       THEN /\ pc' = "failed"
            /\ initError' = "AssertionError"
            /\ initLog' = <<"assert_model", "assert_nldc">>
            /\ UNCHANGED <<selfInterpolate, selfEval, selfTables, selfKlims,
                           buildCount>>
       ELSE LET flag == InterpolateFlag(interpolate, lerp)
                build == BuildsTables(model, nldc, flag)
            IN  /\ pc' = "ready"
                /\ initError' = "none"
                /\ selfInterpolate' = flag
                /\ selfEval' = SelectEval(model, nldc)
                /\ selfTables' =
                      IF build
                      THEN calculate_interpolation_tables(klims[1], klims[2], nk, nz)
                      ELSE selfTables
                /\ selfKlims' =
                      IF build
                      THEN [present |-> TRUE, klims |-> klims, nk |-> nk, nz |-> nz]
                      ELSE selfKlims
                /\ buildCount' = IF build THEN buildCount + 1 ELSE buildCount
                /\ initLog' = <<"assert_model", "assert_nldc", "super_init",
                                "set_interpolate">>
                              \o (IF build THEN <<"build_tables">> ELSE <<>>)
                              \o <<"select_eval">>

\* MandelAgol(nldc, interpolate, klims, model, **kwargs)
ConstructMandelAgol ==
    \E model \in ModelInputs, nldc \in 0..MaxNldc, interpolate \in BOOLEAN,
       lerp \in LerpInputs, klims \in KlimsInputs :
        /\ MandelAgol_init("MandelAgol", model, nldc, interpolate, lerp, klims,
                           DefaultNk, DefaultNz)
        /\ UNCHANGED qpVars

\* MAChromosphere(nthr, supersampling, exptime)
ConstructMAChromosphere ==
    /\ MandelAgol_init("MAChromosphere", "chromosphere", DefaultNldc, FALSE,
                       "absent", <<1, 2>>, DefaultNk, DefaultNz)
    /\ UNCHANGED qpVars

\* MAUniform(nthr, supersampling, exptime, eclipse)
ConstructMAUniform ==
    /\ MandelAgol_init("MAUniform", "uniform", 0, FALSE, "absent", <<1, 2>>,
                       DefaultNk, DefaultNz)
    /\ UNCHANGED qpVars

----------------------------------------------------------------------------
(* Evaluation *)

\* len(np.asarray(u).ravel()) // 2
Npb(u) == Len(u) \div 2

Ones(n, v) == [i \in 1..n |-> v]

\* c * np.ones(npb) under numpy broadcasting
TimesOnes(c, npb) ==
    LET m == Len(c.vals) IN
    IF c.kind = "scalar" THEN [ok |-> TRUE, c |-> NdArray(Ones(npb, c.vals[1]))]
    ELSE IF m = npb THEN [ok |-> TRUE, c |-> NdArray(c.vals)]
    ELSE IF m = 1 THEN [ok |-> TRUE, c |-> NdArray(Ones(npb, c.vals[1]))]
    ELSE IF npb = 1 THEN [ok |-> TRUE, c |-> NdArray(c.vals)]
    ELSE [ok |-> FALSE, c |-> c]

\* if not isinstance(c, np.ndarray) or c.size != npb: c = c*np.ones(npb)
Contamination(c, npb) ==
    IF c.kind # "ndarray" \/ Len(c.vals) # npb
    THEN TimesOnes(c, npb)
    ELSE [ok |-> TRUE, c |-> c]

\* MandelAgol._eval_quadratic(z, k, u, c)
eval_quadratic_(k, u, c) ==
    LET npb == Npb(u)
        cc == Contamination(c, npb)
        base == [npb |-> npb, c |-> cc.c, tables |-> NoTables]
    IN  IF ~cc.ok
        THEN [kernel |-> "none", outcome |-> "ValueError", lookup |-> FALSE,
              npb |-> npb, c |-> c, tables |-> NoTables]
        ELSE IF selfInterpolate
        THEN IF ~selfTables.present
             THEN [kernel |-> "none", outcome |-> "AttributeError",
                   lookup |-> FALSE, npb |-> npb, c |-> cc.c,
                   tables |-> NoTables]
             ELSE LET r == eval_quad_ip(k, u, cc.c, selfTables)
                  IN  [kernel |-> r.kernel, outcome |-> r.outcome,
                       lookup |-> r.lookup, npb |-> npb, c |-> cc.c,
                       tables |-> selfTables]
        ELSE LET r == eval_quad(k, u, cc.c)
             IN  [kernel |-> r.kernel, outcome |-> r.outcome,
                  lookup |-> r.lookup, npb |-> npb, c |-> cc.c,
                  tables |-> NoTables]

\* MandelAgol._eval_uniform(z, k, u, c)
eval_uniform_(k, u, c) ==
    LET r == eval_uniform(k, c)
    IN  [kernel |-> r.kernel, outcome |-> r.outcome, lookup |-> r.lookup,
         npb |-> Npb(u), c |-> c, tables |-> NoTables]

\* MandelAgol._eval_chromosphere(z, k, u, c)
eval_chromosphere_(k, u, c) ==
    LET r == eval_chromosphere(k, c)
    IN  [kernel |-> r.kernel, outcome |-> r.outcome, lookup |-> r.lookup,
         npb |-> Npb(u), c |-> c, tables |-> NoTables]

\* self._eval(z, k, u, c): the delegate selected by __init__
Eval(k, u, c) ==
    IF selfEval = "_eval_chromosphere" THEN eval_chromosphere_(k, u, c)
    ELSE IF selfEval = "_eval_uniform" THEN eval_uniform_(k, u, c)
    ELSE eval_quadratic_(k, u, c)

\* the record an evaluation leaves behind
Evaluated(op, k, u, callerC, r) ==
    [op |-> op, k |-> k, u |-> u, callerC |-> callerC, kernel |-> r.kernel,
     c |-> r.c, npb |-> r.npb, tables |-> r.tables, outcome |-> r.outcome,
     lookup |-> r.lookup]

\* MandelAgol.__call__(z, k, u, c=0.0), also inherited by MAUniform
Call ==
    /\ pc = "ready"
    /\ cls \in {"MandelAgol", "MAUniform"}
    /\ \E in \in CallInputs :
          LET k == in[1]
              u == in[2]
              c == in[3]
          IN  lastEval' = Evaluated("__call__", k, u, c, Eval(k, u, c))
    /\ UNCHANGED <<pc, cls, cfg, initError, initLog, selfInterpolate, selfEval,
                   selfTables, selfKlims, buildCount>>
    /\ UNCHANGED qpVars

\* MAChromosphere.__call__(z, k, c=0, **kwargs)
MAChromosphere_call ==
    /\ pc = "ready"
    /\ cls = "MAChromosphere"
    /\ \E in \in ChromoInputs :
          LET k == in[1]
              c == in[2]
          IN  lastEval' = Evaluated("__call__", k, <<>>, c, Eval(k, <<>>, c))
    /\ UNCHANGED <<pc, cls, cfg, initError, initLog, selfInterpolate, selfEval,
                   selfTables, selfKlims, buildCount>>
    /\ UNCHANGED qpVars

\* TransitModel.evaluate(t, k, u, t0, p, a, i, e, w, c): projects the orbit to
\* z and evaluates the selected kernel with the c it was given.
TransitModel_evaluate(k, u, c) == Eval(k, u, c)

\* the c that MAChromosphere.evaluate hands on: none, so the parent's default
ForwardedC(c) == Scalar(DefaultC)

\* MAChromosphere.evaluate(t, k, t0, p, a, i, e=0., w=0., c=0.)
MAChromosphere_evaluate ==
    /\ pc = "ready"
    /\ cls = "MAChromosphere"
    /\ \E in \in ChromoInputs :
          LET k == in[1]
              c == in[2]
          IN  lastEval' = Evaluated("evaluate", k, <<>>, c,
                              TransitModel_evaluate(k, <<>>, ForwardedC(c)))
    /\ UNCHANGED <<pc, cls, cfg, initError, initLog, selfInterpolate, selfEval,
                   selfTables, selfKlims, buildCount>>
    /\ UNCHANGED qpVars

----------------------------------------------------------------------------
(* QPower2Model *)

\* A Python value that may be None
None == [isNone |-> TRUE, v |-> <<>>]
Some(x) == [isNone |-> FALSE, v |-> x]

\* An ndarray: its shape and its elements in row-major order
Array(shape, data) == [shape |-> shape, data |-> data]
NoArray == Array(<<>>, <<>>)

\* numpy.array([row]) for rows of equal length: shape (len(rows), width)
Array2(rows, width) ==
    Array(<<Len(rows), width>>,
          [x \in 1..(Len(rows) * width) |->
              rows[((x - 1) \div width) + 1][((x - 1) % width) + 1]])

\* numpy.squeeze: the axes of length one are dropped, the elements stay
squeeze(a) == Array(SelectSeq(a.shape, LAMBDA d : d # 1), a.data)

NoData == [lcids |-> None, pbids |-> None, nsamples |-> None,
           exptimes |-> None, es |-> "_es", ms |-> "_ms", tae |-> "_tae"]
NoArgs == [k |-> 0, t0 |-> 0, p |-> 0, a |-> 0, i |-> 0, e |-> <<>>,
           w |-> <<>>, rows |-> <<>>]
NoCall == [op |-> "none", args |-> NoArgs, ldc |-> <<>>, time |-> None,
           data |-> NoData, outcome |-> "none", kernelCalled |-> FALSE,
           kernelArgs |-> <<>>, flux |-> NoArray]

\* numba.qpower2_nb.qpower2_model(t, pvp, ldc, lcids, pbids, nsamples,
\* exptimes, es, ms, tae): one row per parameter vector, one column per time
\* sample; each element is determined by the row, the sample and the rest.
qpower2_model(t, pvp, ldc, data) ==
    LET npv == pvp.shape[1]
        width == pvp.shape[2]
        npt == Len(t)
        row(j) == [x \in 1..width |-> pvp.data[(j - 1) * width + x]]
    IN  Array(<<npv, npt>>,
              [x \in 1..(npv * npt) |->
                  LET j == ((x - 1) \div npt) + 1
                      i == ((x - 1) % npt) + 1
                      lc == data.lcids.v[i] + 1
                  IN  [pv |-> row(j), t |-> t[i], ldc |-> ldc,
                       pb |-> data.pbids.v[lc], ns |-> data.nsamples.v[lc],
                       et |-> data.exptimes.v[lc]]])

\* an evaluation without the assertion
TimeNotChecked(time) == TRUE

\* assert self.time is not None
TimeIsSet(time) == ~time.isNone

\* An optional argument: <<>> when the caller omits it, <<x>> when given.
\* An omitted e or w takes its default, 0.
Default0(x) == IF x = <<>> THEN 0 ELSE x[1]

\* a row with t0 and p exchanged
PsRowSwapped(k, t0, p, a, i, e, w) == <<k, p, t0, a, i, e, w>>

\* [k, t0, p, a, i, e, w]
PsRow(k, t0, p, a, i, e, w) == <<k, t0, p, a, i, e, w>>

\* QPower2Model.evaluate_pv(pvp, ldc) on a model holding (time, data)
evaluate_pv_(time, data, pvp, ldc) ==
    IF ~TimeIsSet(time)
    THEN [outcome |-> "AssertionError", kernelCalled |-> FALSE,
          kernelArgs |-> <<>>, flux |-> NoArray]
    ELSE [outcome |-> "flux", kernelCalled |-> TRUE,
          kernelArgs |-> <<time.v, pvp, ldc, data>>,
          flux |-> squeeze(qpower2_model(time.v, pvp, ldc, data))]

\* QPower2Model.evaluate_ps(k, ldc, t0, p, a, i, e, w) on a model holding
\* (time, data)
evaluate_ps_(time, data, k, ldc, t0, p, a, i, e, w) ==
    IF ~TimeIsSet(time)
    THEN [outcome |-> "AssertionError", kernelCalled |-> FALSE,
          kernelArgs |-> <<>>, flux |-> NoArray]
    ELSE LET pvp == Array2(<<PsRow(k, t0, p, a, i, Default0(e), Default0(w))>>, 7)
         IN  [outcome |-> "flux", kernelCalled |-> TRUE,
              kernelArgs |-> <<time.v, pvp, ldc, data>>,
              flux |-> squeeze(qpower2_model(time.v, pvp, ldc, data))]

Called(op, args, ldc, r) ==
    [op |-> op, args |-> args, ldc |-> ldc, time |-> qtime, data |-> qdata,
     outcome |-> r.outcome, kernelCalled |-> r.kernelCalled,
     kernelArgs |-> r.kernelArgs, flux |-> r.flux]

\* limb darkening coefficient arrays tried
LdcInputs == {<<1, 2>>, <<3, 4>>}

\* scalar parameter sets of evaluate_ps tried
PsInputs ==
    {[k |-> k, t0 |-> 0, p |-> 3, a |-> 4, i |-> 5, e |-> e, w |-> w,
      rows |-> <<>>] :
        k \in {1, 2}, e \in {<<>>, <<0>>, <<7>>}, w \in {<<>>, <<0>>, <<8>>}}

\* supersampling counts tried
NsInputs == {1, 2}

\* rows of the parameter batches tried
RowInputs == {<<1, 0, 3, 4, 5, 0, 0>>, <<2, 0, 3, 4, 5, 7, 8>>,
              <<1, 3, 3, 4, 6, 0, 8>>}

\* TransitModel.set_data(time, lcids, pbids, nsamples, exptimes): one light
\* curve of n samples in one passband
set_data ==
    /\ \E n \in 1..MaxNpt, ns \in NsInputs :
          /\ qtime' = Some([i \in 1..n |-> i])
          /\ qdata' = [lcids |-> Some([i \in 1..n |-> 0]), pbids |-> Some(<<0>>),
                       nsamples |-> Some(<<ns>>), exptimes |-> Some(<<1>>),
                       es |-> "_es", ms |-> "_ms", tae |-> "_tae"]
    /\ UNCHANGED qlast
    /\ UNCHANGED maVars

\* QPower2Model.evaluate_ps(k, ldc, t0, p, a, i, e=0., w=0.)
evaluate_ps ==
    /\ \E in \in PsInputs, ldc \in LdcInputs :
          qlast' = Called("evaluate_ps", in, ldc,
                          evaluate_ps_(qtime, qdata, in.k, ldc, in.t0, in.p,
                                       in.a, in.i, in.e, in.w))
    /\ UNCHANGED <<qtime, qdata>>
    /\ UNCHANGED maVars

\* QPower2Model.evaluate_pv(pvp, ldc)
evaluate_pv ==
    /\ \E m \in 1..MaxNpv, ldc \in LdcInputs :
          \E rows \in [1..m -> RowInputs] :
              qlast' = Called("evaluate_pv", [NoArgs EXCEPT !.rows = rows], ldc,
                              evaluate_pv_(qtime, qdata, Array2(rows, 7), ldc))
    /\ UNCHANGED <<qtime, qdata>>
    /\ UNCHANGED maVars

----------------------------------------------------------------------------
InitMA ==
    /\ pc = "new"
    /\ cls = "none"
    /\ cfg = NoCfg
    /\ initError = "none"
    /\ initLog = <<>>
    /\ selfInterpolate = FALSE
    /\ selfEval = "none"
    /\ selfTables = NoTables
    /\ selfKlims = NoKlims
    /\ buildCount = 0
    /\ lastEval = NoEval

InitQP ==
    /\ qtime = None
    /\ qdata = NoData
    /\ qlast = NoCall

Init == InitMA /\ InitQP

NextMA ==
    \/ ConstructMandelAgol
    \/ ConstructMAChromosphere
    \/ ConstructMAUniform
    \/ Call
    \/ MAChromosphere_call
    \/ MAChromosphere_evaluate

SpecMA == Init /\ [][NextMA]_vars

NextQP ==
    \/ set_data
    \/ evaluate_ps
    \/ evaluate_pv

SpecQP == Init /\ [][NextQP]_vars

----------------------------------------------------------------------------
(* Properties of MandelAgol, checked under SpecMA *)

\* the constructor arguments are outside of what the documentation supports
Rejected ==
    \/ cfg.model \notin {"uniform", "quadratic", "interpolated_quadratic",
                         "chromosphere"}
    \/ cfg.nldc \notin {0, 2}

InitLogHas(e) == \E n \in 1..Len(initLog) : initLog[n] = e

\* C1: a construction with an unsupported model name or with nldc outside
\* {0, 2} ends in an assertion error raised before the parent initialiser
\* runs, before any table is built and before a kernel is selected; the
\* object is never evaluated.
C1_RejectedAtConstruction ==
    (pc # "new" /\ Rejected) =>
        /\ pc = "failed"
        /\ initError = "AssertionError"
        /\ ~InitLogHas("super_init")
        /\ ~InitLogHas("build_tables")
        /\ ~InitLogHas("select_eval")
        /\ selfEval = "none"
        /\ ~selfTables.present
        /\ buildCount = 0
        /\ lastEval.op = "none"

C1_Witness ==
    /\ pc = "failed"
    /\ cfg.model \in {"quadratic", "uniform"}
    /\ cfg.nldc \notin {0, 2}
    /\ initLog = <<"assert_model", "assert_nldc">>

\* the delegate a model name stands for
NamedEval(model) ==
    CASE model = "uniform" -> "_eval_uniform"
      [] model \in {"quadratic", "interpolated_quadratic"} -> "_eval_quadratic"
      [] model = "chromosphere" -> "_eval_chromosphere"
      [] OTHER -> "none"

\* C2: every accepted configuration evaluates with the kernel its model name
\* stands for, and nldc = 0 with a quadratic model is rejected at
\* construction.
C2_NoSilentFallback ==
    /\ pc = "ready" => selfEval = NamedEval(cfg.model)
    /\ (pc # "new" /\ cfg.nldc = 0
        /\ cfg.model \in {"quadratic", "interpolated_quadratic"})
          => pc = "failed"

\* the model evaluates by interpolation: quadratic dispatch reading tables
\* built for klims
EvaluatesByInterpolation ==
    /\ pc = "ready"
    /\ selfEval = "_eval_quadratic"
    /\ selfInterpolate
    /\ selfKlims.present

InterpolationRequested ==
    \/ cfg.model = "interpolated_quadratic"
    \/ cfg.interpolate
    \/ cfg.lerp = "True"

\* C5: under quadratic dispatch the evaluations use the table lookup exactly
\* when the configuration asks for interpolation (by model name, interpolate
\* or lerp), and the tables are built exactly when the evaluations read them.
C5_LookupIffRequested ==
    (/\ pc = "ready"
     /\ selfEval = "_eval_quadratic"
     /\ lastEval.kernel \in {"eval_quad", "eval_quad_ip"})
      => /\ (lastEval.kernel = "eval_quad_ip") <=> InterpolationRequested
         /\ selfTables.present <=> (lastEval.kernel = "eval_quad_ip")

TablesComplete(t) ==
    /\ t.present
    /\ t.ed # <<>> /\ t.le # <<>> /\ t.ld # <<>> /\ t.kt # <<>> /\ t.zt # <<>>

LogIndex(e) == CHOOSE n \in 1..Len(initLog) : initLog[n] = e

C8_State ==
    /\ buildCount <= 1
    /\ buildCount = 1 =>
          /\ InitLogHas("build_tables")
          /\ LogIndex("build_tables") < LogIndex("select_eval")
    /\ pc = "new" => buildCount = 0 /\ ~selfTables.present
    /\ lastEval.outcome # "AttributeError"
    /\ (lastEval.kernel = "eval_quad_ip" \/ lastEval.lookup) =>
          /\ TablesComplete(lastEval.tables)
          /\ lastEval.tables = selfTables

C8_Step ==
    pc # "new" =>
        UNCHANGED <<selfTables, selfKlims, selfInterpolate, selfEval, buildCount>>

\* C8: the tables are built at most once, in the constructor and before the
\* kernel is selected; an evaluation on the lookup path finds all five table
\* arrays; and no evaluation call changes the tables, klims, nk, nz, the
\* interpolate flag or the selected kernel.
C8_TablesBuiltOnce == []C8_State /\ [][C8_Step]_vars

C8_Witness ==
    /\ lastEval.kernel = "eval_quad_ip"
    /\ lastEval.lookup
    /\ buildCount = 1
    /\ TablesComplete(selfTables)

\* C9: the quadratic dispatch hands its kernel exactly one contamination
\* value per passband: a scalar is replicated, an array of npb values is
\* passed unchanged, and no other input reaches the kernel with a length
\* that differs from npb.
C9_OneContaminationPerPassband ==
    lastEval.kernel \in {"eval_quad", "eval_quad_ip"} =>
        /\ Len(lastEval.c.vals) = lastEval.npb
        /\ lastEval.callerC.kind = "scalar" =>
              lastEval.c.vals = Ones(lastEval.npb, lastEval.callerC.vals[1])
        /\ (lastEval.callerC.kind = "ndarray"
            /\ Len(lastEval.callerC.vals) = lastEval.npb) =>
              lastEval.c = lastEval.callerC

\* C10: both entry points of MAChromosphere evaluate with an empty limb
\* darkening vector and with the contamination the caller passed.
C10_ChromosphereForwardsC ==
    (cls = "MAChromosphere" /\ lastEval.op # "none") =>
        /\ lastEval.u = <<>>
        /\ lastEval.c = lastEval.callerC

----------------------------------------------------------------------------
(* Properties of QPower2Model, checked under SpecQP *)

C3_State ==
    /\ (qlast.op # "none" /\ qlast.time.isNone) =>
          /\ qlast.outcome = "AssertionError"
          /\ ~qlast.kernelCalled
          /\ qlast.kernelArgs = <<>>
          /\ qlast.flux = NoArray
    /\ qlast.kernelCalled => ~qlast.time.isNone

C3_Step ==
    (qtime.isNone /\ qlast' # qlast) => UNCHANGED <<qtime, qdata>>

\* C3: an evaluate_ps or evaluate_pv call made while time is None ends in
\* the assertion error, before the kernel is invoked, returns no flux and
\* leaves the model unchanged; the kernel only runs with the time set.
C3_NotConfigured == []C3_State /\ [][C3_Step]_vars

C3_Witness ==
    /\ qlast.op = "evaluate_pv"
    /\ qlast.time.isNone
    /\ qlast.outcome = "AssertionError"

\* C6: evaluate_ps returns a flux of shape (n,) for n time samples, and
\* evaluate_pv with m >= 2 parameter vectors returns m rows of n values.
C6_FluxShape ==
    qlast.outcome = "flux" =>
        LET n == Len(qlast.time.v)
            m == Len(qlast.args.rows)
        IN  /\ qlast.op = "evaluate_ps" => qlast.flux.shape = <<n>>
            /\ (qlast.op = "evaluate_pv" /\ m >= 2) => qlast.flux.shape = <<m, n>>

C7_State ==
    qlast.op = "evaluate_ps" =>
        LET x == qlast.args
            row == <<x.k, x.t0, x.p, x.a, x.i,
                     IF x.e = <<>> THEN 0 ELSE x.e[1],
                     IF x.w = <<>> THEN 0 ELSE x.w[1]>>
            r == evaluate_pv_(qlast.time, qlast.data, Array2(<<row>>, 7),
                              qlast.ldc)
        IN  /\ qlast.outcome = r.outcome
            /\ qlast.flux = r.flux
            /\ qlast.kernelArgs = r.kernelArgs
            /\ qlast.kernelCalled =>
                  /\ qlast.kernelArgs[1] = qlast.time.v
                  /\ qlast.kernelArgs[4] = qlast.data

C7_Step ==
    (~qtime.isNone /\ qlast' # qlast) => UNCHANGED <<qtime, qdata>>

\* C7: evaluate_ps(k, ldc, t0, p, a, i, e, w) returns what evaluate_pv
\* returns for the one-row batch [[k, t0, p, a, i, e, w]] and the same ldc
\* (e and w being 0 when omitted); both hand the kernel the stored model
\* data and neither changes the model.
C7_PsIsOneRowPv == []C7_State /\ [][C7_Step]_vars

C7_Witness ==
    /\ qlast.op = "evaluate_ps"
    /\ qlast.outcome = "flux"
    /\ qlast.args.e = <<>>
    /\ qlast.args.w = <<8>>
    /\ Len(qlast.time.v) > 1

====
